---- MODULE Spec2Model ----
(***************************************************************************)
(* TradingView / LuxAlgo CSV parser: the timestamp converter               *)
(* (utils/datetime_utils.py), the table formatter, column classifier and   *)
(* summary engine (parsers/data_formatter.py) and the parser facade        *)
(* (parsers/csv_parser.py).                                                *)
(*                                                                         *)
(* Cells are tagged records of one shape, [k, n, e, s]:                    *)
(*   k = "num"  : the finite number n * 10^e (kept normalised)             *)
(*   k = "nan"  : float NaN, pandas' missing marker                        *)
(*   k = "inf"  : float infinity, n = 1 or -1                              *)
(*   k = "str"  : text, s = its characters                                 *)
(*   k = "none" : Python None                                              *)
(*   k = "obj"  : a value of any other type (a list, a dict)               *)
(* Text is a sequence of one-character strings, so that parsing and        *)
(* formatting are computed, not looked up.                                 *)
(***************************************************************************)
EXTENDS Integers, Sequences, FiniteSets, TLC

\* raw_data, formatted_data, organized_data: the facade's three tiers
\* files_out: the files the export operations have written
\* parsed_ok: some parse_csv call has returned (history of the facade)
\* input: the argument the functions of the library are applied to
\* call, result: the last call made and what it returned or raised
VARIABLES raw_data, formatted_data, organized_data, files_out, parsed_ok, input, call,
          result

vars == <<raw_data, formatted_data, organized_data, files_out, parsed_ok, input, call,
          result>>

facade == <<raw_data, formatted_data, organized_data, files_out, parsed_ok>>

(***************************************************************************)
(* Bounds of the model.                                                    *)
(***************************************************************************)
MaxRows == 2

MaxCols == 3

(***************************************************************************)
(* Cells.                                                                  *)
(***************************************************************************)
RECURSIVE Normalize(_, _)
Normalize(n, e) ==
    IF n = 0 THEN [n |-> 0, e |-> 0]
    ELSE IF n % 10 = 0 THEN Normalize(n \div 10, e + 1)
    ELSE [n |-> n, e |-> e]

NumOf(p) == [k |-> "num", n |-> p.n, e |-> p.e, s |-> <<>>]

Num(n, e) == NumOf(Normalize(n, e))

NaN == [k |-> "nan", n |-> 0, e |-> 0, s |-> <<>>]

Inf(sign) == [k |-> "inf", n |-> sign, e |-> 0, s |-> <<>>]

Str(chars) == [k |-> "str", n |-> 0, e |-> 0, s |-> chars]

PyNone == [k |-> "none", n |-> 0, e |-> 0, s |-> <<>>]

PyObj == [k |-> "obj", n |-> 0, e |-> 0, s |-> <<>>]

Abs(x) == IF x < 0 THEN -x ELSE x

RECURSIVE Pow10(_)
Pow10(p) == IF p <= 0 THEN 1 ELSE 10 * Pow10(p - 1)

RECURSIVE NumDigits(_)
NumDigits(n) == IF Abs(n) < 10 THEN 1 ELSE 1 + NumDigits(Abs(n) \div 10)

DigitChars == <<"0", "1", "2", "3", "4", "5", "6", "7", "8", "9">>

IsDigit(c) == \E d \in 1..10 : DigitChars[d] = c

DigitVal(c) == (CHOOSE d \in 1..10 : DigitChars[d] = c) - 1

\* n >= 0 written in decimal, left-padded with zeros to at least width characters
RECURSIVE Digits(_, _)
Digits(n, width) ==
    IF n < 10 /\ width <= 1 THEN <<DigitChars[n + 1]>>
    ELSE Append(Digits(n \div 10, width - 1), DigitChars[(n % 10) + 1])

RECURSIVE Zeros(_)
Zeros(c) == IF c <= 0 THEN <<>> ELSE <<"0">> \o Zeros(c - 1)

\* str(value), as the f-string of the diagnostic renders it
PyStr(v) ==
    CASE v.k = "str" -> v.s
      [] v.k = "nan" -> <<"n", "a", "n">>
      [] v.k = "inf" -> (IF v.n < 0 THEN <<"-">> ELSE <<>>) \o <<"i", "n", "f">>
      [] v.k = "none" -> <<"N", "o", "n", "e">>
      [] v.k = "obj" -> <<"[", "]">>
      [] v.k = "num" ->
            (IF v.n < 0 THEN <<"-">> ELSE <<>>) \o
            (IF v.e >= 0 THEN Digits(Abs(v.n), 1) \o Zeros(v.e)
             ELSE Digits(Abs(v.n) \div Pow10(-v.e), 1) \o <<".">> \o
                  Digits(Abs(v.n) % Pow10(-v.e), -v.e))

(***************************************************************************)
(* float(text): an optional sign, digits, an optional fraction; the words  *)
(* inf and nan; anything else is a ValueError.                             *)
(***************************************************************************)
RECURSIVE DigitsValue(_)
DigitsValue(chars) ==
    IF chars = <<>> THEN 0
    ELSE 10 * DigitsValue(SubSeq(chars, 1, Len(chars) - 1)) + DigitVal(chars[Len(chars)])

AllDigits(chars) == \A i \in 1..Len(chars) : IsDigit(chars[i])

DotAt(chars) == IF \E i \in 1..Len(chars) : chars[i] = "."
                THEN CHOOSE i \in 1..Len(chars) :
                        chars[i] = "." /\ \A j \in 1..(i - 1) : chars[j] # "."
                ELSE 0

ParseUnsigned(chars) ==
    LET dot == DotAt(chars)
        ip == IF dot = 0 THEN chars ELSE SubSeq(chars, 1, dot - 1)
        fp == IF dot = 0 THEN <<>> ELSE SubSeq(chars, dot + 1, Len(chars))
    IN  IF chars = <<"i", "n", "f">> THEN [ok |-> TRUE, v |-> Inf(1)]
        ELSE IF chars = <<"n", "a", "n">> THEN [ok |-> TRUE, v |-> NaN]
        ELSE IF Len(ip) + Len(fp) > 0 /\ AllDigits(ip) /\ AllDigits(fp)
             THEN [ok |-> TRUE, v |-> Num(DigitsValue(ip \o fp), -Len(fp))]
        ELSE [ok |-> FALSE, v |-> NaN]

Negate(v) == IF v.k = "num" THEN Num(-v.n, v.e)
             ELSE IF v.k = "inf" THEN Inf(-v.n)
             ELSE v

PyFloat(chars) ==
    IF Len(chars) > 0 /\ chars[1] = "-"
    THEN LET p == ParseUnsigned(Tail(chars)) IN [ok |-> p.ok, v |-> Negate(p.v)]
    ELSE IF Len(chars) > 0 /\ chars[1] = "+" THEN ParseUnsigned(Tail(chars))
    ELSE ParseUnsigned(chars)

(***************************************************************************)
(* datetime.fromtimestamp(value, tz=utc).strftime('%Y-%m-%d %H:%M:%S')     *)
(***************************************************************************)
SecondsPerDay == 86400

RECURSIVE Gcd(_, _)
Gcd(a, b) == IF b = 0 THEN a ELSE Gcd(b, a % b)

\* the day number (days since 1970-01-01) and second of the day of n * 10^e, for a
\* value within the years 1..9999; 10^e is divided by its common factor with 86400
\* first, which keeps every intermediate value below 2^31
DaysSecs(n, e) ==
    LET base == IF e > 7 THEN 7 ELSE IF e < 0 THEN 0 ELSE e
        g == Gcd(Pow10(base), SecondsPerDay)
        scaled == n * (Pow10(base) \div g) * Pow10(e - base)
    IN  [d |-> scaled \div (SecondsPerDay \div g),
         s |-> (scaled % (SecondsPerDay \div g)) * g]

\* the proleptic Gregorian date of a day number
CivilFromDays(days) ==
    LET z == days + 719468
        era == z \div 146097
        doe == z - era * 146097
        yoe == (doe - doe \div 1460 + doe \div 36524 - doe \div 146096) \div 365
        doy == doe - (365 * yoe + yoe \div 4 - yoe \div 100)
        mp == (5 * doy + 2) \div 153
        m == IF mp < 10 THEN mp + 3 ELSE mp - 9
    IN  [y |-> yoe + era * 400 + (IF m <= 2 THEN 1 ELSE 0),
         m |-> m,
         d |-> doy - (153 * mp + 2) \div 5 + 1]

\* strftime with day and month exchanged ('%Y-%d-%m')
StrftimeDayMonth(date, secs) ==
    Digits(date.y, 4) \o <<"-">> \o Digits(date.d, 2) \o <<"-">> \o Digits(date.m, 2)
    \o <<" ">> \o Digits(secs \div 3600, 2) \o <<":">> \o Digits((secs % 3600) \div 60, 2)
    \o <<":">> \o Digits(secs % 60, 2)

Strftime(date, secs) ==
    Digits(date.y, 4) \o <<"-">> \o Digits(date.m, 2) \o <<"-">> \o Digits(date.d, 2)
    \o <<" ">> \o Digits(secs \div 3600, 2) \o <<":">> \o Digits((secs % 3600) \div 60, 2)
    \o <<":">> \o Digits(secs % 60, 2)

StrftimeOf(ds) == Strftime(CivilFromDays(ds.d), ds.s)

\* |n * 10^e| >= 2^63: the value does not fit the platform's 64-bit time_t
ExceedsTimeT(n, e) ==
    LET total == NumDigits(n) + e
        lead == IF NumDigits(n) >= 9 THEN Abs(n) \div Pow10(NumDigits(n) - 9)
                ELSE Abs(n) * Pow10(9 - NumDigits(n))
    IN  total > 19 \/ (total = 19 /\ lead > 922337203)

\* 9999-12-31 23:59:59 is 253402300799 and 0001-01-01 00:00:00 is -62135596800
MaxTimestampDiv1000 == 253402300

MinTimestampDiv100 == -621355968

\* the year of n * 10^e is within 1..9999 (datetime.MINYEAR..MAXYEAR)
YearInRange(n, e) ==
    /\ e >= 3 => n <= MaxTimestampDiv1000 \div Pow10(e - 3)
    /\ e >= 2 => n >= -((-MinTimestampDiv100) \div Pow10(e - 2))

\* [exc |-> "" and the text] or [exc |-> the exception fromtimestamp raises]
FromTimestamp(v) ==
    CASE v.k \in {"none", "obj", "str"} -> [exc |-> "TypeError", text |-> <<>>]
      [] v.k = "nan" -> [exc |-> "ValueError", text |-> <<>>]
      [] v.k = "inf" -> [exc |-> "OverflowError", text |-> <<>>]
      [] v.k = "num" ->
            IF ExceedsTimeT(v.n, v.e) THEN [exc |-> "OverflowError", text |-> <<>>]
            ELSE IF ~YearInRange(v.n, v.e) THEN [exc |-> "ValueError", text |-> <<>>]
            ELSE [exc |-> "",
                  text |-> StrftimeOf(DaysSecs(IF v.e < 0 THEN v.n \div Pow10(-v.e)
                                               ELSE v.n, v.e))]

InvalidPrefix == <<"I", "n", "v", "a", "l", "i", "d", " ", "t", "i", "m", "e", "s", "t",
                   "a", "m", "p", ":", " ">>

CaughtByUnixToDatetime == {"ValueError", "TypeError", "OSError"}

\* the value the name timestamp is bound to when the try block ends, and what
\* fromtimestamp made of it: float(text) rebinds the name only when it succeeds
Rebound(timestamp, conv) ==
    IF conv.ok THEN [bound |-> conv.v, dt |-> FromTimestamp(conv.v)]
    ELSE [bound |-> timestamp, dt |-> [exc |-> "ValueError", text |-> <<>>]]

TryBlock(timestamp) ==
    Rebound(timestamp,
            IF timestamp.k = "str" THEN PyFloat(timestamp.s)
            ELSE [ok |-> TRUE, v |-> timestamp])

\* the except clause of unix_to_datetime
ExceptClause(t) ==
    IF t.dt.exc = "" THEN [raised |-> FALSE, exc |-> "", val |-> Str(t.dt.text)]
    ELSE IF t.dt.exc \in CaughtByUnixToDatetime
         THEN [raised |-> FALSE, exc |-> "", val |-> Str(InvalidPrefix \o PyStr(t.bound))]
    ELSE [raised |-> TRUE, exc |-> t.dt.exc, val |-> PyNone]

\* [raised, exc, val]: val is the returned text cell when nothing was raised
unix_to_datetime(timestamp) == ExceptClause(TryBlock(timestamp))

\* the list comprehension over the converted cells: the first cell that raises ends it
Comprehension(converted) ==
    IF \E i \in 1..Len(converted) : converted[i].raised
    THEN [raised |-> TRUE,
          exc |-> converted[CHOOSE i \in 1..Len(converted) :
                               /\ converted[i].raised
                               /\ \A j \in 1..(i - 1) : ~converted[j].raised].exc,
          val |-> <<>>]
    ELSE [raised |-> FALSE, exc |-> "",
          val |-> [i \in 1..Len(converted) |-> converted[i].val]]

format_datetime_column(series) ==
    Comprehension([i \in 1..Len(series) |-> unix_to_datetime(series[i])])

\* the except clause of is_valid_timestamp
ValidExceptClause(t) ==
    IF t.dt.exc = "" THEN [raised |-> FALSE, exc |-> "", val |-> TRUE]
    ELSE IF t.dt.exc \in CaughtByUnixToDatetime
         THEN [raised |-> FALSE, exc |-> "", val |-> FALSE]
    ELSE [raised |-> TRUE, exc |-> t.dt.exc, val |-> FALSE]

is_valid_timestamp(timestamp) == ValidExceptClause(TryBlock(timestamp))

(***************************************************************************)
(* Tables (DataFrames): a sequence of columns [name, cells], column names  *)
(* distinct (read_csv renames repeated header names), all columns of one   *)
(* table of equal length.                                                  *)
(***************************************************************************)
Column(name, cells) == [name |-> name, cells |-> cells]

Columns(df) == [i \in 1..Len(df) |-> df[i].name]

HasCol(df, name) == \E i \in 1..Len(df) : df[i].name = name

Col(df, name) == df[CHOOSE i \in 1..Len(df) : df[i].name = name]

\* len(df)
Rows(df) == IF Len(df) = 0 THEN 0 ELSE Len(df[1].cells)

\* df.empty
IsEmpty(df) == Len(df) = 0 \/ Rows(df) = 0

\* df[names]
Select(df, names) == [i \in 1..Len(names) |-> Col(df, names[i])]

\* df[name] = cells: in place when the column exists, appended otherwise
SetColumn(df, name, cells) ==
    IF HasCol(df, name)
    THEN [i \in 1..Len(df) |-> IF df[i].name = name THEN Column(name, cells) ELSE df[i]]
    ELSE Append(df, Column(name, cells))

SeqFilterNot(df, name) == SelectSeq(df, LAMBDA column : column.name # name)

(***************************************************************************)
(* pd.to_numeric and Series.round                                          *)
(***************************************************************************)
DecimalPlaces == 4

\* the numeric value of one cell, or unparsable
NumericOf(c) ==
    CASE c.k \in {"num", "nan", "inf"} -> [ok |-> TRUE, v |-> c]
      [] c.k = "none" -> [ok |-> TRUE, v |-> NaN]
      [] c.k = "str" -> PyFloat(c.s)
      [] OTHER -> [ok |-> FALSE, v |-> NaN]

\* errors = "coerce": an unparsable cell becomes NaN; errors = "raise": ValueError
Coerced(series, parsed, errors) ==
    IF errors = "raise" /\ \E i \in 1..Len(parsed) : ~parsed[i].ok
    THEN [raised |-> TRUE, val |-> series]
    ELSE [raised |-> FALSE,
          val |-> [i \in 1..Len(parsed) |-> IF parsed[i].ok THEN parsed[i].v ELSE NaN]]

to_numeric(series, errors) ==
    Coerced(series, [i \in 1..Len(series) |-> NumericOf(series[i])], errors)

RoundHalfEven(n, m) ==
    LET q == n \div m
        r == n % m
    IN  IF 2 * r < m THEN q
        ELSE IF 2 * r > m THEN q + 1
        ELSE IF q % 2 = 0 THEN q ELSE q + 1

RoundCell(c, places) ==
    IF c.k = "num" /\ c.e < -places
    THEN Num(RoundHalfEven(c.n, Pow10(-places - c.e)), -places)
    ELSE c

\* the try block's result, or the original series when to_numeric raised
RoundOrOriginal(series, numeric_series) ==
    IF numeric_series.raised THEN series
    ELSE [i \in 1..Len(series) |-> RoundCell(numeric_series.val[i], DecimalPlaces)]

\* _format_numeric_column with errors='raise': a column with an unparsable cell comes
\* back as it was
FormatNumericColumnRaising(series) == RoundOrOriginal(series, to_numeric(series, "raise"))

_format_numeric_column(series) == RoundOrOriginal(series, to_numeric(series, "coerce"))

(***************************************************************************)
(* DataFormatter.format_dataframe: [raised, exc, val]                      *)
(***************************************************************************)
\* cols = ['datetime'] + [col for col in columns if col != 'datetime']; df[cols]
DatetimeFirst(df) == <<Col(df, "datetime")>> \o SeqFilterNot(df, "datetime")

\* the loop over the columns: every column but time and datetime is coerced
FormatColumns(df) ==
    [i \in 1..Len(df) |->
        IF df[i].name \in {"time", "datetime"} THEN df[i]
        ELSE Column(df[i].name, _format_numeric_column(df[i].cells))]

\* the 'time' branch, given the converted time column
WithDatetime(df, dt) ==
    IF dt.raised THEN [raised |-> TRUE, exc |-> dt.exc, val |-> <<>>]
    ELSE [raised |-> FALSE, exc |-> "",
          val |-> FormatColumns(DatetimeFirst(SetColumn(df, "datetime", dt.val)))]

format_dataframe(df) ==
    IF HasCol(df, "time")
    THEN WithDatetime(df, format_datetime_column(Col(df, "time").cells))
    ELSE [raised |-> FALSE, exc |-> "", val |-> FormatColumns(df)]

(***************************************************************************)
(* DataFormatter.COLUMN_CATEGORIES, in declaration order, and str.lower()  *)
(* over the column names and patterns of the model.                        *)
(***************************************************************************)
COLUMN_CATEGORIES == <<
    [category |-> "OHLC", columns |-> <<"time", "open", "high", "low", "close">>],
    [category |-> "LuxAlgo_Connector", columns |-> <<"LUCID Connector">>],
    [category |-> "Signals",
     columns |-> <<"Bullish", "Bullish+", "Bearish", "Bearish+", "Bullish Exit",
                   "Bearish Exit">>],
    [category |-> "Metrics",
     columns |-> <<"Trend Strength", "Take Profit", "Stop Loss", "Bar Color Value">>],
    [category |-> "Indicators",
     columns |-> <<"Trend Tracer", "Trend Catcher", "Smart Trail",
                   "Smart Trail Extremity">>],
    [category |-> "Bands",
     columns |-> <<"RZ R3 Band", "RZ R2 Band", "RZ R1 Band", "Reversal Zones Average",
                   "RZ S1 Band", "RZ S2 Band", "RZ S3 Band">>],
    [category |-> "Neo", columns |-> <<"Neo Lead", "Neo Lag">>],
    [category |-> "Alerts",
     columns |-> <<"Custom Alert Condition Highlighter",
                   "Alert Scripting Condition Highlighter">>],
    [category |-> "Other", columns |-> <<"@valuewhen">>] >>

\* <<name, name.lower()>> for every name with an upper-case letter
LowerPairs == {
    <<"LUCID Connector", "lucid connector">>, <<"Bullish", "bullish">>,
    <<"Bullish+", "bullish+">>, <<"Bearish", "bearish">>, <<"Bearish+", "bearish+">>,
    <<"Bullish Exit", "bullish exit">>, <<"Bearish Exit", "bearish exit">>,
    <<"Trend Strength", "trend strength">>, <<"Take Profit", "take profit">>,
    <<"Stop Loss", "stop loss">>, <<"Bar Color Value", "bar color value">>,
    <<"Trend Tracer", "trend tracer">>, <<"Trend Catcher", "trend catcher">>,
    <<"Smart Trail", "smart trail">>,
    <<"Smart Trail Extremity", "smart trail extremity">>,
    <<"RZ R3 Band", "rz r3 band">>, <<"RZ R2 Band", "rz r2 band">>,
    <<"RZ R1 Band", "rz r1 band">>,
    <<"Reversal Zones Average", "reversal zones average">>,
    <<"RZ S1 Band", "rz s1 band">>, <<"RZ S2 Band", "rz s2 band">>,
    <<"RZ S3 Band", "rz s3 band">>, <<"Neo Lead", "neo lead">>, <<"Neo Lag", "neo lag">>,
    <<"Custom Alert Condition Highlighter", "custom alert condition highlighter">>,
    <<"Alert Scripting Condition Highlighter", "alert scripting condition highlighter">>,
    <<"Time", "time">>, <<"TIME", "time">>, <<"Open", "open">>, <<"CLOSE", "close">>,
    <<"BULLISH", "bullish">>, <<"Datetime", "datetime">>, <<"Volume", "volume">>,
    <<"NEO LEAD", "neo lead">>, <<"@ValueWhen", "@valuewhen">> }

Lower(name) ==
    IF \E p \in LowerPairs : p[1] = name
    THEN (CHOOSE p \in LowerPairs : p[1] = name)[2]
    ELSE name

(***************************************************************************)
(* DataFormatter.organize_by_category: the ordered dict as a sequence of   *)
(* [category, df] in insertion order.                                      *)
(***************************************************************************)
SeqToSet(sq) == {sq[i] : i \in 1..Len(sq)}

\* the iterations of the two nested loops that come before pattern k of category c
Earlier(c, k) ==
    { p \in UNION { { <<b, j>> : j \in 1..Len(COLUMN_CATEGORIES[b].columns) } :
                    b \in 1..Len(COLUMN_CATEGORIES) } :
        p[1] < c \/ (p[1] = c /\ p[2] < k) }

\* used_columns when the loops reach pattern k of category c: the union of the
\* matching_cols of the iterations before it, which are the columns that equal one of
\* the earlier patterns case-insensitively
used_columns(df, c, k) ==
    { name \in SeqToSet(Columns(df)) :
        \E p \in Earlier(c, k) :
            Lower(name) = Lower(COLUMN_CATEGORIES[p[1]].columns[p[2]]) }

MatchingCols(names, col, used) ==
    SelectSeq(names, LAMBDA name : Lower(name) = Lower(col) /\ name \notin used)

\* the inner loop of category c from its pattern k on
RECURSIVE AvailableCols(_, _, _)
AvailableCols(df, c, k) ==
    IF k > Len(COLUMN_CATEGORIES[c].columns) THEN <<>>
    ELSE MatchingCols(Columns(df), COLUMN_CATEGORIES[c].columns[k],
                      used_columns(df, c, k))
         \o AvailableCols(df, c, k + 1)

WithOhlcDatetime(df, category, available_cols) ==
    IF category = "OHLC" /\ HasCol(df, "datetime")
    THEN <<"datetime">> \o available_cols
    ELSE available_cols

\* one pass of the outer loop: the entry of category c, its table empty when no
\* column is available
Organized(df, c) ==
    [category |-> COLUMN_CATEGORIES[c].category,
     df |-> Select(df, AvailableCols(df, c, 1))]

\* the dict after the outer loop: the categories with available columns, in order
OrganizedDeclared(df, passes) ==
    [i \in 1..Len(passes) |->
        [category |-> passes[i].category,
         df |-> Select(df, WithOhlcDatetime(df, passes[i].category,
                                            Columns(passes[i].df)))]]

\* remaining_cols without the test against used_columns
RemainingColsIgnoringUsed(names, used) ==
    SelectSeq(names, LAMBDA col : col # "datetime")

RemainingCols(names, used) ==
    SelectSeq(names, LAMBDA col : col \notin used /\ col # "datetime")

HasKey(organized, category) ==
    \E i \in 1..Len(organized) : organized[i].category = category

Get(organized, category) ==
    organized[CHOOSE i \in 1..Len(organized) : organized[i].category = category].df

Keys(organized) == [i \in 1..Len(organized) |-> organized[i].category]

WithOther(df, organized, remaining_cols) ==
    IF remaining_cols = <<>> THEN organized
    ELSE IF HasKey(organized, "Other")
         THEN [i \in 1..Len(organized) |->
                  IF organized[i].category = "Other"
                  THEN [category |-> "Other",
                        df |-> organized[i].df \o Select(df, remaining_cols)]
                  ELSE organized[i]]
    ELSE Append(organized, [category |-> "Other", df |-> Select(df, remaining_cols)])

organize_by_category(df) ==
    WithOther(df,
              OrganizedDeclared(df,
                  SelectSeq([c \in 1..Len(COLUMN_CATEGORIES) |-> Organized(df, c)],
                            LAMBDA pass : pass.df # <<>>)),
              RemainingCols(Columns(df),
                            used_columns(df, Len(COLUMN_CATEGORIES) + 1, 1)))

(***************************************************************************)
(* DataFormatter.get_summary_stats                                         *)
(***************************************************************************)
IsNa(c) == c.k \in {"nan", "none"}

RECURSIVE MissingCount(_)
MissingCount(cells) ==
    IF cells = <<>> THEN 0
    ELSE (IF IsNa(Head(cells)) THEN 1 ELSE 0) + MissingCount(Tail(cells))

\* (count / total) * 100 as the fraction num / den in lowest terms; divzero marks a
\* division by zero (numpy answers nan or inf with a RuntimeWarning)
Percentage(count, total) ==
    IF total = 0 THEN [divzero |-> TRUE, num |-> 0, den |-> 0]
    ELSE [divzero |-> FALSE,
          num |-> (count * 100) \div Gcd(count * 100, total),
          den |-> total \div Gcd(count * 100, total)]

\* the missing-data loop without its missing_count > 0 test
RECURSIVE MissingDataUnguarded(_, _)
MissingDataUnguarded(df, total) ==
    IF df = <<>> THEN <<>>
    ELSE <<[col |-> Head(df).name, count |-> MissingCount(Head(df).cells),
            percentage |-> Percentage(MissingCount(Head(df).cells), total)]>>
         \o MissingDataUnguarded(Tail(df), total)

RECURSIVE MissingData(_, _)
MissingData(df, total) ==
    IF df = <<>> THEN <<>>
    ELSE LET missing_count == MissingCount(Head(df).cells)
         IN  (IF missing_count > 0
              THEN <<[col |-> Head(df).name, count |-> missing_count,
                      percentage |-> Percentage(missing_count, total)]>>
              ELSE <<>>) \o MissingData(Tail(df), total)

RECURSIVE NumericColumns(_)
NumericColumns(df) ==
    IF df = <<>> THEN <<>>
    ELSE (IF Head(df).name \notin {"time", "datetime"}
             /\ ~to_numeric(Head(df).cells, "raise").raised
          THEN <<Head(df).name>> ELSE <<>>) \o NumericColumns(Tail(df))

\* date_range: <<>> for None, else <<[start, end]>>; start and end are <<>> for None
DateRange(df) ==
    IF ~HasCol(df, "datetime") THEN <<>>
    ELSE LET cells == Col(df, "datetime").cells
         IN  <<[start |-> IF Rows(df) > 0 THEN <<cells[1]>> ELSE <<>>,
                end |-> IF Rows(df) > 0 THEN <<cells[Len(cells)]>> ELSE <<>>]>>

get_summary_stats(df) ==
    [total_rows |-> Rows(df),
     total_columns |-> Len(df),
     date_range |-> DateRange(df),
     missing_data |-> MissingData(df, Rows(df)),
     numeric_columns |-> NumericColumns(df)]

(***************************************************************************)
(* Optional values: Python None or a value.                                *)
(***************************************************************************)
NoneT == [isNone |-> TRUE, v |-> <<>>]

Some(x) == [isNone |-> FALSE, v |-> x]

Returned(v) == [raised |-> FALSE, exc |-> "", val |-> v]

(***************************************************************************)
(* The files the facade reads. A file is its header and its data rows, as  *)
(* text; pd.read_csv decodes it, splits it and infers each column's type.  *)
(***************************************************************************)
File(exists, decodable, header, rows) ==
    [exists |-> exists, decodable |-> decodable, header |-> header, rows |-> rows]

\* the spec's end-to-end example: time,open,high,low,close,Bullish and one row
ExampleFile ==
    File(TRUE, TRUE, <<"time", "open", "high", "low", "close", "Bullish">>,
         << <<Digits(1754179200, 1), Digits(100, 1), Digits(105, 1), Digits(95, 1),
              Digits(102, 1), Digits(1, 1)>> >>)

\* two spellings of one pattern, a declared and an undeclared Other column, text in a
\* value column, an empty field and a value with more than four decimals
SignalsFile ==
    File(TRUE, TRUE, <<"Bullish", "BULLISH", "@valuewhen", "volume", "close">>,
         << <<Digits(1, 1), Digits(0, 1), <<"x">>, Digits(7, 1),
              <<"1", ".", "2", "3", "4", "5", "6">>>>,
            <<Digits(0, 1), <<>>, Digits(2, 1), Digits(9, 1),
              <<"2", ".", "5">>>> >>)

FileSystem ==
    [path \in {"missing.csv", "nobytes.csv", "binary.csv", "header_only.csv",
               "inf_time.csv", "example.csv", "signals.csv"} |->
        CASE path = "missing.csv" -> File(FALSE, FALSE, <<>>, <<>>)
          [] path = "nobytes.csv" -> File(TRUE, TRUE, <<>>, <<>>)
          [] path = "binary.csv" -> File(TRUE, FALSE, <<>>, <<>>)
          [] path = "header_only.csv" -> File(TRUE, TRUE, <<"time", "close">>, <<>>)
          [] path = "inf_time.csv" ->
                File(TRUE, TRUE, <<"time", "close">>,
                     << <<<<"i", "n", "f">>, Digits(1, 1)>> >>)
          [] path = "example.csv" -> ExampleFile
          [] path = "signals.csv" -> SignalsFile]

\* Path(file_path).exists()
Exists(file_path) == FileSystem[file_path].exists

\* one parsed field: an empty field is missing, else the number it spells if any
ParsedField(chars) == IF chars = <<>> THEN [ok |-> TRUE, v |-> NaN] ELSE PyFloat(chars)

\* a column whose fields are all numbers or empty is numeric; any other column keeps
\* its text, with NaN for the empty fields
InferredColumn(fields, parsed) ==
    IF \A i \in 1..Len(parsed) : parsed[i].ok
    THEN [i \in 1..Len(parsed) |-> parsed[i].v]
    ELSE [i \in 1..Len(fields) |-> IF fields[i] = <<>> THEN NaN ELSE Str(fields[i])]

ReadColumn(fields) ==
    InferredColumn(fields, [i \in 1..Len(fields) |-> ParsedField(fields[i])])

\* pd.read_csv(file_path): [raised, exc, msg, val]
read_csv(file) ==
    IF ~file.decodable
    THEN [raised |-> TRUE, exc |-> "UnicodeDecodeError",
          msg |-> "'utf-8' codec can't decode byte", val |-> <<>>]
    ELSE IF file.header = <<>>
    THEN [raised |-> TRUE, exc |-> "EmptyDataError",
          msg |-> "No columns to parse from file", val |-> <<>>]
    ELSE [raised |-> FALSE, exc |-> "", msg |-> "",
          val |-> [c \in 1..Len(file.header) |->
                      Column(file.header[c],
                             ReadColumn([r \in 1..Len(file.rows) |-> file.rows[r][c]]))]]

(***************************************************************************)
(* TradingViewCSVParser.parse_csv. self is the record of the three tiers;  *)
(* the outcome is [raised, exc, msg, self, ret].                           *)
(***************************************************************************)
Tiers(raw, formatted, organized) ==
    [raw_data |-> raw, formatted_data |-> formatted, organized_data |-> organized]

\* an exception leaving the try block with the tiers as they are at that point
Raise(exc, msg, self) ==
    [raised |-> TRUE, exc |-> exc, msg |-> msg, self |-> self, ret |-> NoneT]

\* str(e) of the exceptions of the timestamp conversion
OverflowMessage == "cannot convert float infinity to integer"

\* lines 62-64, given the formatted table
Organize(raw, formatted) ==
    [raised |-> FALSE, exc |-> "", msg |-> "",
     self |-> Tiers(Some(raw), Some(formatted), Some(organize_by_category(formatted))),
     ret |-> Some(formatted)]

\* line 59, given what format_dataframe did; raw_data is already assigned
Format(self, raw, formatted) ==
    IF formatted.raised
    THEN Raise(formatted.exc, OverflowMessage,
               Tiers(Some(raw), self.formatted_data, self.organized_data))
    ELSE Organize(raw, formatted.val)

\* lines 53-56, given what pd.read_csv did
Read(self, raw) ==
    IF raw.raised THEN Raise(raw.exc, raw.msg, self)
    ELSE IF IsEmpty(raw.val)
    THEN Raise("EmptyDataError", "CSV file is empty",
               Tiers(Some(raw.val), self.formatted_data, self.organized_data))
    ELSE Format(self, raw.val, format_dataframe(raw.val))

\* the try block, lines 48-64
ParseTry(self, file_path) ==
    IF ~Exists(file_path)
    THEN Raise("FileNotFoundError", "CSV file not found: " \o file_path, self)
    ELSE Read(self, read_csv(FileSystem[file_path]))

\* except Exception as e: raise Exception(f"Error parsing CSV file: {str(e)}")
ParseExcept(outcome) ==
    IF outcome.raised
    THEN [raised |-> TRUE, exc |-> "Exception",
          msg |-> "Error parsing CSV file: " \o outcome.msg,
          self |-> outcome.self, ret |-> NoneT]
    ELSE outcome

parse_csv(self, file_path) == ParseExcept(ParseTry(self, file_path))

(***************************************************************************)
(* The query operations. A Python str is modelled as a sequence of chunks  *)
(* of text whose concatenation it is.                                      *)
(***************************************************************************)
NoDataParsedYet == <<"No data parsed yet. Use parse_csv() first.">>

NoDataToExport == "No data to export. Parse CSV first."

\* the truth value of an optional dict: None and {} are false
Truthy(organized) == ~organized.isNone /\ organized.v # <<>>

IntText(n) == (IF n < 0 THEN <<"-">> ELSE <<>>) \o Digits(Abs(n), 1)

\* f"{x:.1f}" of x = tenths / 10
Tenths(tenths) == Digits(tenths \div 10, 1) \o <<".">> \o Digits(tenths % 10, 1)

\* sep.join(parts)
RECURSIVE Join(_, _)
Join(sep, parts) ==
    IF parts = <<>> THEN <<>>
    ELSE IF Len(parts) = 1 THEN parts[1]
    ELSE parts[1] \o <<sep>> \o Join(sep, Tail(parts))

\* str() of an optional cell of date_range
OptionalText(opt) == IF opt = <<>> THEN PyStr(PyNone) ELSE PyStr(opt[1])

DateRangeLines(date_range) ==
    IF date_range = <<>> THEN <<>>
    ELSE << <<"Date range: ">> \o OptionalText(date_range[1].start) \o <<" to ">>
            \o OptionalText(date_range[1].end) >>

MissingLines(missing_data) ==
    IF missing_data = <<>> THEN <<>>
    ELSE << <<"\\nMissing data:">> >> \o
         [i \in 1..Len(missing_data) |->
             <<"  ", missing_data[i].col, ": ">> \o IntText(missing_data[i].count)
             \o <<" rows (">> \o Tenths(RoundHalfEven(missing_data[i].percentage.num * 10,
                                     missing_data[i].percentage.den)) \o <<"%)">>]

CategoryLines(organized) ==
    IF Truthy(organized)
    THEN << <<"\\nData categories found: ">> \o Join(", ", [i \in 1..Len(organized.v) |->
                                                       <<organized.v[i].category>>]) >>
    ELSE <<>>

\* lines 99-117, given the stats
Summary(stats, organized) ==
    Join("\\n",
         << <<"=== TradingView CSV Parser Summary ===">>,
            <<"Total rows: ">> \o IntText(stats.total_rows),
            <<"Total columns: ">> \o IntText(stats.total_columns) >>
         \o DateRangeLines(stats.date_range)
         \o MissingLines(stats.missing_data)
         \o << <<"\\nNumeric columns: ">> \o IntText(Len(stats.numeric_columns)) >>
         \o CategoryLines(organized))

display_summary(self) ==
    IF self.formatted_data.isNone THEN NoDataParsedYet
    ELSE Summary(get_summary_stats(self.formatted_data.v), self.organized_data)

\* the choice of the table without a look at the category: always the full table
ChosenIgnoringCategory(self, category) == self.formatted_data.v

\* the table an operation with a category argument works on; "" stands for the
\* values of category that are false (None, '')
Chosen(self, category) ==
    IF /\ category # ""
       /\ Truthy(self.organized_data)
       /\ HasKey(self.organized_data.v, category)
    THEN Get(self.organized_data.v, category)
    ELSE self.formatted_data.v

Title(self, category) ==
    IF /\ category # ""
       /\ Truthy(self.organized_data)
       /\ HasKey(self.organized_data.v, category)
    THEN <<"=== ", category, " Data ===">>
    ELSE <<"=== All Data ===">>

\* df.head(max_rows)
HeadRows(df, max_rows) ==
    [c \in 1..Len(df) |->
        Column(df[c].name, SubSeq(df[c].cells, 1, IF max_rows < Rows(df) THEN max_rows
                                                 ELSE Rows(df)))]

\* df.fillna('')
FillNa(df) ==
    [c \in 1..Len(df) |->
        Column(df[c].name, [r \in 1..Len(df[c].cells) |->
                               IF IsNa(df[c].cells[r]) THEN Str(<<>>) ELSE df[c].cells[r]])]

\* DataFormatter.format_for_display: the table that to_string lays out
format_for_display(df, max_rows) ==
    FillNa(IF max_rows # 0 THEN HeadRows(df, max_rows) ELSE df)

\* lines 140-146: the title, the table shown and the line about the rows left out
Display(title, df_to_show, max_rows) ==
    [title |-> title,
     table |-> format_for_display(df_to_show, max_rows),
     more |-> IF Rows(df_to_show) > max_rows
              THEN <<"\\n... showing first ">> \o IntText(max_rows) \o <<" of ">>
                   \o IntText(Rows(df_to_show)) \o <<" rows">>
              ELSE <<>>]

display_data(self, category, max_rows) ==
    IF self.formatted_data.isNone THEN NoDataParsedYet
    ELSE Display(Title(self, category), Chosen(self, category), max_rows)

list_categories(self) ==
    IF Truthy(self.organized_data) THEN Keys(self.organized_data.v) ELSE <<>>

(***************************************************************************)
(* get_column_info: per column the dtype, the counts and, for a numeric    *)
(* dtype, min, max and mean. The mean is the fraction sum / count * 10^e.  *)
(***************************************************************************)
\* str(series.dtype) of a column of the model
Dtype(cells) ==
    IF \E i \in 1..Len(cells) : cells[i].k \in {"str", "none", "obj"} THEN "object"
    ELSE IF \A i \in 1..Len(cells) : cells[i].k = "num" /\ cells[i].e >= 0 THEN "int64"
    ELSE "float64"

NonNull(cells) == SelectSeq(cells, LAMBDA c : ~IsNa(c))

Finite(cells) == SelectSeq(cells, LAMBDA c : c.k = "num")

\* the least exponent of the finite cells, to which they are all scaled
LeastExp(nums) ==
    IF nums = <<>> THEN 0
    ELSE CHOOSE e \in {nums[i].e : i \in 1..Len(nums)} :
            \A i \in 1..Len(nums) : e <= nums[i].e

ScaledTo(nums, e) == [i \in 1..Len(nums) |-> nums[i].n * Pow10(nums[i].e - e)]

RECURSIVE Sum(_)
Sum(ints) == IF ints = <<>> THEN 0 ELSE Head(ints) + Sum(Tail(ints))

HasInf(cells, sign) == \E i \in 1..Len(cells) : cells[i] = Inf(sign)

\* series.min(), series.max() and series.mean(), which skip the missing cells
SeriesMin(cells, scaled, e) ==
    IF NonNull(cells) = <<>> THEN NaN
    ELSE IF HasInf(cells, -1) THEN Inf(-1)
    ELSE IF scaled = <<>> THEN Inf(1)
    ELSE Num(CHOOSE x \in SeqToSet(scaled) : \A y \in SeqToSet(scaled) : x <= y, e)

SeriesMax(cells, scaled, e) ==
    IF NonNull(cells) = <<>> THEN NaN
    ELSE IF HasInf(cells, 1) THEN Inf(1)
    ELSE IF scaled = <<>> THEN Inf(-1)
    ELSE Num(CHOOSE x \in SeqToSet(scaled) : \A y \in SeqToSet(scaled) : x >= y, e)

SeriesMean(cells, scaled, e) ==
    IF NonNull(cells) = <<>> \/ (HasInf(cells, 1) /\ HasInf(cells, -1))
    THEN [v |-> NaN, num |-> 0, den |-> 1, e |-> 0]
    ELSE IF HasInf(cells, 1) THEN [v |-> Inf(1), num |-> 0, den |-> 1, e |-> 0]
    ELSE IF HasInf(cells, -1) THEN [v |-> Inf(-1), num |-> 0, den |-> 1, e |-> 0]
    ELSE [v |-> Num(0, 0), num |-> Sum(scaled), den |-> Len(scaled), e |-> e]

\* the info of one column, given its finite cells scaled to the exponent e
Info(cells, scaled, e) ==
    [type |-> Dtype(cells),
     non_null_count |-> Len(NonNull(cells)),
     null_count |-> MissingCount(cells),
     unique_count |-> Cardinality(SeqToSet(NonNull(cells))),
     numeric |-> Dtype(cells) # "object",
     min |-> IF Dtype(cells) # "object" THEN <<SeriesMin(cells, scaled, e)>> ELSE <<>>,
     max |-> IF Dtype(cells) # "object" THEN <<SeriesMax(cells, scaled, e)>> ELSE <<>>,
     mean |-> IF Dtype(cells) # "object" THEN <<SeriesMean(cells, scaled, e)>> ELSE <<>>]

ColumnInfo(cells, e) == Info(cells, ScaledTo(Finite(cells), e), e)

get_column_info(self) ==
    IF self.formatted_data.isNone THEN <<>>
    ELSE [c \in 1..Len(self.formatted_data.v) |->
             [col |-> self.formatted_data.v[c].name,
              info |-> ColumnInfo(self.formatted_data.v[c].cells,
                                  LeastExp(Finite(self.formatted_data.v[c].cells)))]]

(***************************************************************************)
(* The export operations. A written file is its format and the records    *)
(* the serializer lays out: the header and the rows of DataFrame.to_csv,   *)
(* the list of row dicts of to_dict('records') handed to json.dump.        *)
(***************************************************************************)
OutputPaths == {"out.csv", "out.json"}

\* no file written yet at any output path
NoFiles ==
    [output_path \in OutputPaths |-> [format |-> "", header |-> <<>>, rows |-> <<>>]]

\* df.to_csv(output_path, index=False)
to_csv(df) ==
    [format |-> "csv",
     header |-> Columns(df),
     rows |-> [r \in 1..Rows(df) |-> [c \in 1..Len(df) |-> df[c].cells[r]]]]

\* df.to_dict('records')
to_dict(df) ==
    [r \in 1..Rows(df) |->
        [c \in 1..Len(df) |-> [key |-> df[c].name, value |-> df[c].cells[r]]]]

\* json.dump(json_data, f, indent=2, default=str)
json_dump(json_data) == [format |-> "json", header |-> <<>>, rows |-> json_data]

Raised(exc, msg) == [raised |-> TRUE, exc |-> exc, val |-> msg]

\* export_to_csv with its guard on raw_data: with raw_data set and formatted_data
\* None the call reaches None.to_csv
export_to_csv_after_read(self, files, output_path, category) ==
    IF self.raw_data.isNone
    THEN [result |-> Raised("Exception", NoDataToExport), files |-> files]
    ELSE IF self.formatted_data.isNone
    THEN [result |-> Raised("AttributeError",
                            "'NoneType' object has no attribute 'to_csv'"),
          files |-> files]
    ELSE [result |-> Returned(<<>>),
          files |-> [files EXCEPT ![output_path] = to_csv(Chosen(self, category))]]

\* the outcome of an export: [result, files]
export_to_csv(self, files, output_path, category) ==
    IF self.formatted_data.isNone
    THEN [result |-> Raised("Exception", NoDataToExport), files |-> files]
    ELSE [result |-> Returned(<<>>),
          files |-> [files EXCEPT ![output_path] = to_csv(Chosen(self, category))]]

export_to_json(self, files, output_path, category) ==
    IF self.formatted_data.isNone
    THEN [result |-> Raised("Exception", NoDataToExport), files |-> files]
    ELSE [result |-> Returned(<<>>),
          files |-> [files EXCEPT ![output_path] =
                        json_dump(to_dict(Chosen(self, category)))]]

(***************************************************************************)
(* The library functions applied to bounded inputs. The functions are pure *)
(* and keep no state, so a behaviour is one input and one call on it.      *)
(***************************************************************************)
Chars_x == <<"x">>

TimestampCells == {
    Num(1754179200, 0), Num(0, 0), Num(-1, 0), Num(15, -1), Num(86399, 0),
    Num(951782400, 0), Num(2534023, 5), Num(2534024, 5), Num(1, 11), Num(-1, 11),
    Num(1, 20), Num(-1, 20), Num(9223372, 12), NaN, Inf(1), Inf(-1), PyNone, PyObj,
    Str(Chars_x), Str(<<"1", "2">>), Str(<<"i", "n", "f">>), Str(<<"n", "a", "n">>),
    Str(<<>>), Str(<<"-", "1">>), Str(<<"1", ".", "5">>) }

ValueCells == { Num(314159265, -8), NaN, Str(Chars_x), Str(<<"2">>) }

MoreValueCells == ValueCells \cup { Num(1, 0), Inf(1) }

TimeCells == { Num(1754179200, 0), NaN, Inf(1), Str(Chars_x) }

NameUniverse == { "time", "Time", "TIME", "open", "Bullish", "BULLISH", "Neo Lead",
                  "@valuewhen", "volume", "datetime" }

SeriesOf(cells, r) == [1..r -> cells]

Distinct(names) == \A i, j \in 1..Len(names) : i # j => names[i] # names[j]

\* tables that vary the column names: one row, every cell the number 1
NameTables ==
    { [i \in 1..Len(names) |-> Column(names[i], <<Num(1, 0)>>)] :
        names \in { nm \in UNION { [1..c -> NameUniverse] : c \in 0..MaxCols } :
                        Distinct(nm) } }

\* tables that vary the cells, 0..MaxRows rows
CellTables ==
    UNION { { <<Column("close", a)>> : a \in SeriesOf(MoreValueCells, r) }
            \cup { <<Column("time", t), Column("close", a)>> :
                      t \in SeriesOf(TimeCells, r), a \in SeriesOf(ValueCells, r) }
            \cup { <<Column("close", a), Column("note", b)>> :
                      a \in SeriesOf(ValueCells, r), b \in SeriesOf({Num(1, 0), NaN}, r) }
            \cup { <<Column("datetime", a), Column("close", b), Column("time", t)>> :
                      a \in SeriesOf({Str(Chars_x)}, r),
                      b \in SeriesOf({Num(1, 0), NaN}, r),
                      t \in SeriesOf(TimeCells, r) }
          : r \in 0..MaxRows }

\* one-cell time columns over every kind of timestamp
TimestampTables == { <<Column("time", <<c>>)>> : c \in TimestampCells }

TableInputs == NameTables \cup CellTables \cup TimestampTables

FnCall(op, col, row) ==
    [op |-> op, col |-> col, row |-> row, path |-> "", category |-> "", max_rows |-> 0]

InitFn ==
    /\ raw_data = NoneT
    /\ formatted_data = NoneT
    /\ organized_data = NoneT
    /\ files_out = NoFiles
    /\ parsed_ok = FALSE
    /\ input \in TableInputs
    /\ call = FnCall("", 0, 0)
    /\ result = Returned(<<>>)

UnixToDatetime ==
    /\ call.op = ""
    /\ \E c \in 1..Len(input) : \E r \in 1..Len(input[c].cells) :
           /\ call' = FnCall("unix_to_datetime", c, r)
           /\ result' = unix_to_datetime(input[c].cells[r])
           /\ UNCHANGED <<facade, input>>

IsValidTimestamp ==
    /\ call.op = ""
    /\ \E c \in 1..Len(input) : \E r \in 1..Len(input[c].cells) :
           /\ call' = FnCall("is_valid_timestamp", c, r)
           /\ result' = is_valid_timestamp(input[c].cells[r])
           /\ UNCHANGED <<facade, input>>

FormatDatetimeColumn ==
    /\ call.op = ""
    /\ \E c \in 1..Len(input) :
           /\ call' = FnCall("format_datetime_column", c, 0)
           /\ result' = format_datetime_column(input[c].cells)
           /\ UNCHANGED <<facade, input>>

FormatNumericColumn ==
    /\ call.op = ""
    /\ \E c \in 1..Len(input) :
           /\ call' = FnCall("_format_numeric_column", c, 0)
           /\ result' = Returned(_format_numeric_column(input[c].cells))
           /\ UNCHANGED <<facade, input>>

FormatDataframe ==
    /\ call.op = ""
    /\ call' = FnCall("format_dataframe", 0, 0)
    /\ result' = format_dataframe(input)
    /\ UNCHANGED <<facade, input>>

OrganizeByCategory ==
    /\ call.op = ""
    /\ call' = FnCall("organize_by_category", 0, 0)
    /\ result' = Returned(organize_by_category(input))
    /\ UNCHANGED <<facade, input>>

GetSummaryStats ==
    /\ call.op = ""
    /\ call' = FnCall("get_summary_stats", 0, 0)
    /\ result' = Returned(get_summary_stats(input))
    /\ UNCHANGED <<facade, input>>

\* get_summary_stats applied to the table format_dataframe returned, as parse_csv and
\* display_summary chain them
SummaryOfFormatted ==
    /\ call.op = ""
    /\ LET formatted == format_dataframe(input)
       IN  /\ ~formatted.raised
           /\ call' = FnCall("summary_of_formatted", 0, 0)
           /\ result' = Returned(get_summary_stats(formatted.val))
    /\ UNCHANGED <<facade, input>>

NextFn ==
    \/ UnixToDatetime
    \/ IsValidTimestamp
    \/ FormatDatetimeColumn
    \/ FormatNumericColumn
    \/ FormatDataframe
    \/ OrganizeByCategory
    \/ GetSummaryStats
    \/ SummaryOfFormatted

SpecFn == InitFn /\ [][NextFn]_vars

(***************************************************************************)
(* The facade: one parser object, any sequence of calls on it.             *)
(***************************************************************************)
Categories == {"", "OHLC", "Other", "Volume"}

MaxRowsArgs == {1, 10}

Call(op, path, category, max_rows) ==
    [op |-> op, col |-> 0, row |-> 0, path |-> path, category |-> category,
     max_rows |-> max_rows]

Self == Tiers(raw_data, formatted_data, organized_data)

\* TradingViewCSVParser.__init__
Init ==
    /\ raw_data = NoneT
    /\ formatted_data = NoneT
    /\ organized_data = NoneT
    /\ files_out = NoFiles
    /\ parsed_ok = FALSE
    /\ input = <<>>
    /\ call = Call("", "", "", 0)
    /\ result = Returned(<<>>)

\* the assignments of one parse_csv call, given its outcome
Parsed(file_path, outcome) ==
    /\ call' = Call("parse_csv", file_path, "", 0)
    /\ raw_data' = outcome.self.raw_data
    /\ formatted_data' = outcome.self.formatted_data
    /\ organized_data' = outcome.self.organized_data
    /\ parsed_ok' = (parsed_ok \/ ~outcome.raised)
    /\ result' = IF outcome.raised THEN Raised(outcome.exc, outcome.msg)
                 ELSE Returned(outcome.ret.v)
    /\ UNCHANGED <<files_out, input>>

ParseCsv ==
    \E file_path \in DOMAIN FileSystem : Parsed(file_path, parse_csv(Self, file_path))

GetFormattedData ==
    /\ call' = Call("get_formatted_data", "", "", 0)
    /\ result' = Returned(formatted_data)
    /\ UNCHANGED <<facade, input>>

GetOrganizedData ==
    /\ call' = Call("get_organized_data", "", "", 0)
    /\ result' = Returned(organized_data)
    /\ UNCHANGED <<facade, input>>

DisplaySummary ==
    /\ call' = Call("display_summary", "", "", 0)
    /\ result' = Returned(display_summary(Self))
    /\ UNCHANGED <<facade, input>>

DisplayData ==
    \E category \in Categories : \E max_rows \in MaxRowsArgs :
        /\ call' = Call("display_data", "", category, max_rows)
        /\ result' = Returned(display_data(Self, category, max_rows))
        /\ UNCHANGED <<facade, input>>

ListCategories ==
    /\ call' = Call("list_categories", "", "", 0)
    /\ result' = Returned(list_categories(Self))
    /\ UNCHANGED <<facade, input>>

GetColumnInfo ==
    /\ call' = Call("get_column_info", "", "", 0)
    /\ result' = Returned(get_column_info(Self))
    /\ UNCHANGED <<facade, input>>

ExportToCsv ==
    \E output_path \in {"out.csv"} : \E category \in Categories :
        LET outcome == export_to_csv(Self, files_out, output_path, category)
        IN  /\ call' = Call("export_to_csv", output_path, category, 0)
            /\ result' = outcome.result
            /\ files_out' = outcome.files
            /\ UNCHANGED <<raw_data, formatted_data, organized_data, parsed_ok, input>>

ExportToJson ==
    \E output_path \in {"out.json"} : \E category \in Categories :
        LET outcome == export_to_json(Self, files_out, output_path, category)
        IN  /\ call' = Call("export_to_json", output_path, category, 0)
            /\ result' = outcome.result
            /\ files_out' = outcome.files
            /\ UNCHANGED <<raw_data, formatted_data, organized_data, parsed_ok, input>>

Next ==
    \/ ParseCsv
    \/ GetFormattedData
    \/ GetOrganizedData
    \/ DisplaySummary
    \/ DisplayData
    \/ ListCategories
    \/ GetColumnInfo
    \/ ExportToCsv
    \/ ExportToJson

Spec == Init /\ [][Next]_vars

(***************************************************************************)
(* Properties of the facade (Spec).                                        *)
(***************************************************************************)
AllUnset == raw_data = NoneT /\ formatted_data = NoneT /\ organized_data = NoneT

\* C1: a parse_csv call that fails while no parse has succeeded yet (a missing file, a
\* header without data rows, a read or format error) leaves the facade without partial
\* mutation: raw_data, formatted_data and organized_data are all still unset.
C1_FailedParseLeavesUnset ==
    (~parsed_ok /\ call.op = "parse_csv" /\ result.raised) => AllUnset

\* C2: the three tiers are set and replaced atomically: in every reachable state they
\* are all unset, or all set with formatted_data = format(raw_data) and
\* organized_data = organize(formatted_data).
C2_TiersAtomic ==
    \/ AllUnset
    \/ /\ ~raw_data.isNone
       /\ ~formatted_data.isNone
       /\ ~organized_data.isNone
       /\ format_dataframe(raw_data.v) = Returned(formatted_data.v)
       /\ organized_data.v = organize_by_category(formatted_data.v)

\* the kinds the three-way report allows for a failing path
ExpectedKinds(file) ==
    IF ~file.exists THEN {"FileNotFoundError"}
    ELSE IF file.decodable /\ file.header # <<>> /\ file.rows = <<>>
    THEN {"EmptyDataError"}
    ELSE IF file.decodable /\ file.header = <<>> THEN {"EmptyDataError", "Exception"}
    ELSE {"Exception"}

\* C3: parse_csv reports its failures by kind: FileNotFoundError for a path that does
\* not resolve, EmptyDataError for a file of zero rows, and the generic Exception only
\* for the remaining read and decode errors.
C3_FailureKinds ==
    (call.op = "parse_csv" /\ result.raised) =>
        result.exc \in ExpectedKinds(FileSystem[call.path])

QueryOps == {"get_formatted_data", "get_organized_data", "list_categories",
             "get_column_info", "display_summary", "display_data"}

ExportOps == {"export_to_csv", "export_to_json"}

NotParsedIndicator(op) ==
    CASE op \in {"get_formatted_data", "get_organized_data"} -> NoneT
      [] op \in {"list_categories", "get_column_info"} -> <<>>
      [] op \in {"display_summary", "display_data"} -> NoDataParsedYet

\* C4: while no parse has succeeded, every query returns its not-parsed indicator
\* without raising, every export raises the 'no data' error and writes no file, and
\* none of them changes a tier.
C4_OperationsBeforeParse ==
    [][ ~parsed_ok =>
          /\ call'.op \in QueryOps =>
                /\ result' = Returned(NotParsedIndicator(call'.op))
                /\ UNCHANGED <<raw_data, formatted_data, organized_data, files_out>>
          /\ call'.op \in ExportOps =>
                /\ result' = Raised("Exception", NoDataToExport)
                /\ UNCHANGED <<raw_data, formatted_data, organized_data, files_out>>
      ]_vars

\* an export refused after a failed parse has already assigned raw_data
C4_Witness ==
    /\ ~parsed_ok
    /\ ~raw_data.isNone
    /\ call.op = "export_to_csv"
    /\ result = Raised("Exception", NoDataToExport)
    /\ files_out = NoFiles

\* what an export operation writes for a table
Serialized(op, df) == IF op = "export_to_csv" THEN to_csv(df) ELSE json_dump(to_dict(df))

\* C11: after a successful parse, export_to_csv and export_to_json raise no error for
\* any category argument: a category that is a key of the organized set serializes
\* exactly that category's sub-table, any other category (an unknown name, or none)
\* serializes the full formatted table; the other written file and the three tiers
\* are unchanged.
C11_ExportByCategory ==
    [][ (parsed_ok /\ call'.op \in ExportOps) =>
          /\ result' = Returned(<<>>)
          /\ UNCHANGED <<raw_data, formatted_data, organized_data>>
          /\ files_out'[call'.path] =
                Serialized(call'.op,
                           IF HasKey(organized_data.v, call'.category)
                           THEN Get(organized_data.v, call'.category)
                           ELSE formatted_data.v)
          /\ \A output_path \in OutputPaths \ {call'.path} :
                files_out'[output_path] = files_out[output_path]
      ]_vars

\* an export under an unknown category name that wrote the full formatted table,
\* one column more than the OHLC table a known name would have written
C11_Witness ==
    /\ parsed_ok
    /\ call.op = "export_to_json"
    /\ call.category = "Volume"
    /\ ~HasKey(organized_data.v, "Volume")
    /\ HasKey(organized_data.v, "OHLC")
    /\ result = Returned(<<>>)
    /\ files_out["out.json"] = json_dump(to_dict(formatted_data.v))
    /\ files_out["out.json"] # json_dump(to_dict(Get(organized_data.v, "OHLC")))

(***************************************************************************)
(* Properties of the library functions (SpecFn).                           *)
(***************************************************************************)
\* the places <<category number, column number>> where a column name is filed
PlacesOf(organized, name) ==
    { p \in UNION { { <<i, j>> : j \in 1..Len(organized[i].df) } :
                    i \in 1..Len(organized) } :
        organized[p[1]].df[p[2]].name = name }

Declares(c, name) ==
    \E k \in 1..Len(COLUMN_CATEGORIES[c].columns) :
        Lower(COLUMN_CATEGORIES[c].columns[k]) = Lower(name)

\* the first declared category with a case-insensitively equal pattern, else Other
DeclaredCategory(name) ==
    IF \E c \in 1..Len(COLUMN_CATEGORIES) : Declares(c, name)
    THEN COLUMN_CATEGORIES[CHOOSE c \in 1..Len(COLUMN_CATEGORIES) :
                               /\ Declares(c, name)
                               /\ \A b \in 1..(c - 1) : ~Declares(b, name)].category
    ELSE "Other"

\* C5: organize_by_category partitions the columns: every column other than
\* 'datetime' is filed exactly once, under the first declared category with a
\* case-insensitively equal pattern or else under 'Other'; nothing is filed that is
\* not a column of the table, and no category appears twice.
C5_ColumnsPartitioned ==
    call.op = "organize_by_category" =>
        /\ \A c \in 1..Len(input) :
              input[c].name # "datetime" =>
                  /\ Cardinality(PlacesOf(result.val, input[c].name)) = 1
                  /\ \A p \in PlacesOf(result.val, input[c].name) :
                        /\ result.val[p[1]].category = DeclaredCategory(input[c].name)
                        /\ result.val[p[1]].df[p[2]] = input[c]
        /\ \A i \in 1..Len(result.val) :
              /\ Len(result.val[i].df) > 0
              /\ \A j \in 1..Len(result.val[i].df) : HasCol(input, result.val[i].df[j].name)
              /\ \A k \in 1..Len(result.val) : k # i =>
                     result.val[k].category # result.val[i].category

\* a table with two spellings of one pattern and leftovers joining a declared Other
C5_Witness ==
    /\ call.op = "organize_by_category"
    /\ HasKey(result.val, "OHLC")
    /\ HasKey(result.val, "Other")
    /\ \/ Len(Get(result.val, "OHLC")) >= 2
       \/ Len(Get(result.val, "Other")) >= 2

Unparsable(cells) == \E i \in 1..Len(cells) : ~NumericOf(cells[i]).ok

\* C6: numeric coercion is per column: a column other than 'time'/'datetime' with a
\* cell that cannot be parsed as a number is returned unchanged by format_dataframe
\* and by _format_numeric_column.
C6_UnparsableColumnUnchanged ==
    /\ (call.op = "format_dataframe" /\ ~result.raised) =>
          \A c \in 1..Len(input) :
              (input[c].name \notin {"time", "datetime"} /\ Unparsable(input[c].cells)) =>
                  Col(result.val, input[c].name).cells = input[c].cells
    /\ call.op = "_format_numeric_column" =>
          (Unparsable(input[call.col].cells) => result.val = input[call.col].cells)

\* text of the layout YYYY-MM-DD HH:MM:SS
IsDateText(chars) ==
    /\ Len(chars) = 19
    /\ \A i \in 1..19 :
          CASE i \in {5, 8} -> chars[i] = "-"
            [] i = 11 -> chars[i] = " "
            [] i \in {14, 17} -> chars[i] = ":"
            [] OTHER -> IsDigit(chars[i])

IsDiagnostic(chars) ==
    /\ Len(chars) >= Len(InvalidPrefix)
    /\ SubSeq(chars, 1, Len(InvalidPrefix)) = InvalidPrefix

\* C7: unix_to_datetime never raises: every input gives a date text or the diagnostic
\* text, and format_datetime_column returns a result of the length of its input.
C7_NeverRaises ==
    /\ call.op = "unix_to_datetime" =>
          /\ ~result.raised
          /\ result.val.k = "str"
          /\ IsDateText(result.val.s) \/ IsDiagnostic(result.val.s)
    /\ call.op = "format_datetime_column" =>
          /\ ~result.raised
          /\ Len(result.val) = Len(input[call.col].cells)

ExampleTimestamp == 1754179200

Text_2025_08_12 == <<"2", "0", "2", "5", "-", "0", "8", "-", "1", "2", " ",
                     "0", "0", ":", "0", "0", ":", "0", "0">>

Text_2025_08_03 == <<"2", "0", "2", "5", "-", "0", "8", "-", "0", "3", " ",
                     "0", "0", ":", "0", "0", ":", "0", "0">>

\* the example timestamp converted alone, or as the only row of a table's time column
ExampleConverted(text) ==
    /\ (call.op = "unix_to_datetime"
        /\ input[call.col].cells[call.row] = Num(ExampleTimestamp, 0)) =>
          result = Returned(Str(text))
    /\ (call.op = "format_dataframe" /\ HasCol(input, "time") /\ Rows(input) = 1
        /\ Col(input, "time").cells[1] = Num(ExampleTimestamp, 0)) =>
          /\ ~result.raised
          /\ Col(result.val, "datetime").cells[1] = Str(text)

C9_ShapeKept ==
    call.op = "format_dataframe" =>
        /\ ~result.raised
        /\ Rows(result.val) = Rows(input)
        /\ \/ Len(result.val) = Len(input)
           \/ /\ Len(result.val) = Len(input) + 1
              /\ HasCol(input, "time")
              /\ ~HasCol(input, "datetime")
        /\ HasCol(input, "time") => result.val[1].name = "datetime"
        /\ Columns(SeqFilterNot(result.val, "datetime"))
              = Columns(SeqFilterNot(input, "datetime"))

InMissingData(stats, name) ==
    \E i \in 1..Len(stats.missing_data) : stats.missing_data[i].col = name

\* C10: get_summary_stats never divides by zero: a table of zero rows gives
\* total_rows = 0 and an empty missing-data map, and the map holds exactly the columns
\* with a missing cell, each once, with percentage = count / total_rows * 100.
C10_MissingData ==
    call.op = "get_summary_stats" =>
        /\ result.val.total_rows = Rows(input)
        /\ Rows(input) = 0 => result.val.missing_data = <<>>
        /\ \A c \in 1..Len(input) :
              InMissingData(result.val, input[c].name) <=> MissingCount(input[c].cells) > 0
        /\ \A i \in 1..Len(result.val.missing_data) :
              LET entry == result.val.missing_data[i]
              IN  /\ HasCol(input, entry.col)
                  /\ entry.count = MissingCount(Col(input, entry.col).cells)
                  /\ ~entry.percentage.divzero
                  /\ entry.percentage.num * Rows(input)
                        = entry.count * 100 * entry.percentage.den
                  /\ \A k \in 1..Len(result.val.missing_data) :
                        k # i => result.val.missing_data[k].col # entry.col

\* the summary of a table that has columns and no rows
C10_Witness ==
    /\ call.op = "get_summary_stats"
    /\ Len(input) > 0
    /\ Rows(input) = 0
    /\ result.val.total_rows = 0
    /\ result.val.missing_data = <<>>

\* C12: for every table format_dataframe produces, get_summary_stats lists every
\* column other than 'time' and 'datetime' in numeric_columns, in column order,
\* whatever the raw column contained.
C12_FormattedColumnsNumeric ==
    call.op = "summary_of_formatted" =>
        result.val.numeric_columns =
            SelectSeq(Columns(format_dataframe(input).val),
                      LAMBDA name : name \notin {"time", "datetime"})

\* a raw column holding text that is no number, listed as numeric once formatted
C12_Witness ==
    /\ call.op = "summary_of_formatted"
    /\ \E c \in 1..Len(input) :
          /\ input[c].name \notin {"time", "datetime"}
          /\ Unparsable(input[c].cells)
          /\ \E i \in 1..Len(result.val.numeric_columns) :
                result.val.numeric_columns[i] = input[c].name

====
